---- MODULE Spec2Model ----
(***************************************************************************)
(* A model of tree-splicer's splicing engine,                              *)
(* crates/tree-splicer/src/splice.rs: the Branch Table (Branches), the     *)
(* Splicer iterator and its constructor splice().                          *)
(*                                                                         *)
(* The tree-sitter parser, the tree_sitter_edit renderer and the NodeTypes *)
(* classifier are external crates.  They are modelled by a small language  *)
(* that has what the engine relies on: a root node over the whole text,    *)
(* inner nodes with children, leaves, node kinds that depend on context    *)
(* (so that a reparse can show a kind the corpus never had), and an edit   *)
(* that replaces the byte range of one node.                               *)
(***************************************************************************)
EXTENDS Integers, Sequences, FiniteSets, TLC

(***************************************************************************)
(* Bounds of the model.                                                    *)
(***************************************************************************)
\* longest text of a corpus file
MaxLen == 2
\* largest Config.tests
MaxTests == 2
\* largest Config.inter_splices
MaxSplices == 3
\* pulls a consumer makes on one Splicer
MaxPulls == MaxTests + 1
\* number of distinct words the random stream can hold
RawMax == 4
\* number of distinct keys a RandomState can have
HashKeys == 2
\* words of the random stream that are kept for a rebuilt Splicer
MaxTape == 7

\* the percent rolls are gen_range(0..100)
Percent == 100
\* usize arithmetic wraps at this modulus (a narrow stand-in for 2^64)
UsizeModulus == 2 ^ 16

(***************************************************************************)
(* Bytes, texts, kinds.                                                    *)
(***************************************************************************)
Alphabet == {"a", ";"}
IsLetter(c) == c # ";"
Texts == UNION {[1..n -> Alphabet] : n \in 0..MaxLen}
FileNames == {"f1", "f2"}
None == [some |-> FALSE]
Some(bytes) == [some |-> TRUE, bytes |-> bytes]

Min(a, b) == IF a < b THEN a ELSE b
Range(s) == {s[j] : j \in DOMAIN s}

\* &text[node.byte_range()]: the bytes start..end-1 (0-based, end exclusive)
Slice(text, start, end) == SubSeq(text, start + 1, end)

(***************************************************************************)
(* The parser.  A tree is the sequence of its nodes in document order,     *)
(* node 1 the root; a node is [kind, start, end, parent].                  *)
(*   source : the root, over the whole text                                *)
(*   word   : a maximal run of letters, its children one leaf per letter,  *)
(*            the leaf's kind being the letter itself                      *)
(*   semi   : a ";" that follows a word                                    *)
(*   ERROR  : a ";" that follows no word                                   *)
(***************************************************************************)
RECURSIVE RunEnd(_, _)
RunEnd(text, p) ==
    IF p <= Len(text) /\ IsLetter(text[p]) THEN RunEnd(text, p + 1) ELSE p

RECURSIVE ParseItems(_, _, _)
ParseItems(text, p, nodes) ==
    IF p > Len(text) THEN nodes
    ELSE IF IsLetter(text[p])
    THEN LET q == RunEnd(text, p)
             w == Len(nodes) + 1
             word == [kind |-> "word", start |-> p - 1, end |-> q - 1, parent |-> 1]
             letters == [j \in 1..(q - p) |->
                            [kind |-> text[p + j - 1], start |-> p + j - 2,
                             end |-> p + j - 1, parent |-> w]]
         IN  ParseItems(text, q, (nodes \o <<word>>) \o letters)
    ELSE LET k == IF p > 1 /\ IsLetter(text[p - 1]) THEN "semi" ELSE "ERROR"
         IN  ParseItems(text, p + 1,
                        Append(nodes, [kind |-> k, start |-> p - 1, end |-> p, parent |-> 1]))

parse(text) ==
    ParseItems(text, 1, <<[kind |-> "source", start |-> 0, end |-> Len(text), parent |-> 0]>>)

root_node == 1
node_text(text, tree, n) == Slice(text, tree[n].start, tree[n].end)

\* node.child(0), node.child(1), ...: the children of n in document order
RECURSIVE ChildrenFrom(_, _, _)
ChildrenFrom(tree, n, j) ==
    IF j > Len(tree) THEN <<>>
    ELSE IF tree[j].parent = n THEN <<j>> \o ChildrenFrom(tree, n, j + 1)
    ELSE ChildrenFrom(tree, n, j + 1)
children(tree, n) == ChildrenFrom(tree, n, 1)

\* tree_sitter_edit::render with Replace {id, bytes}: the text with the byte
\* range of node id replaced by bytes, everything else copied
render(tree, text, id, bytes) ==
    (Slice(text, 0, tree[id].start) \o bytes) \o Slice(text, tree[id].end, Len(text))

(***************************************************************************)
(* Iteration order of a HashMap or HashSet: a function of the elements and *)
(* of the RandomState key of the process, here the elements in a fixed     *)
(* order rotated by the key.                                               *)
(***************************************************************************)
RECURSIVE SetToSeq(_)
SetToSeq(S) ==
    IF S = {} THEN <<>>
    ELSE LET x == CHOOSE y \in S : TRUE IN <<x>> \o SetToSeq(S \ {x})

\* (t is s bound as a value: the sequence is computed once)
Rotate(s, k) ==
    CHOOSE q \in {IF Len(t) = 0 THEN t
                  ELSE [j \in 1..Len(t) |-> t[((j - 1 + k) % Len(t)) + 1]] : t \in {s}} :
        TRUE

hash_iter(S, key) == Rotate(SetToSeq(S), key)

(***************************************************************************)
(* The random stream.  StdRng::seed_from_u64(seed) fixes a stream of       *)
(* words; gen_range maps one word to the range by a widening multiply.     *)
(***************************************************************************)
Raw == 0..(RawMax - 1)
gen_range(r, n) == (r * n) \div RawMax

(***************************************************************************)
(* Branches                                                                *)
(***************************************************************************)
\* branches.entry(kind).or_insert_with(HashSet).insert(fragment)
entry_insert(table, kind, fragment) ==
    IF kind \in DOMAIN table
    THEN [table EXCEPT ![kind] = @ \cup {fragment}]
    ELSE table @@ (kind :> {fragment})

\* one level of the traversal: every node of the level is recorded
RECURSIVE insert_level(_, _, _, _)
insert_level(text, tree, level, table) ==
    IF level = <<>> THEN table
    ELSE insert_level(text, tree, Tail(level),
                      entry_insert(table, tree[Head(level)].kind,
                                   node_text(text, tree, Head(level))))

\* the children of the nodes of a level, in order
RECURSIVE level_children(_, _)
level_children(tree, level) ==
    IF level = <<>> THEN <<>>
    ELSE children(tree, Head(level)) \o level_children(tree, Tail(level))

RECURSIVE visit_levels(_, _, _, _)
visit_levels(text, tree, level, table) ==
    IF level = <<>> THEN table
    ELSE visit_levels(text, tree, level_children(tree, level),
                      insert_level(text, tree, level, table))

\* faulty variant: the traversal of a tree starts below its root
RECURSIVE visit_trees_below_root(_, _)
visit_trees_below_root(ts, table) ==
    IF ts = <<>> THEN table
    ELSE visit_trees_below_root(Tail(ts),
                                visit_levels(Head(ts).text, Head(ts).tree,
                                             children(Head(ts).tree, root_node), table))

RECURSIVE visit_trees(_, _)
visit_trees(ts, table) ==
    IF ts = <<>> THEN table
    ELSE visit_trees(Tail(ts),
                     visit_levels(Head(ts).text, Head(ts).tree, <<root_node>>, table))

\* a table with no entry
EmptyTable == [k \in {} |-> {}]

\* faulty variant: the table starts with an empty entry for every kind of the language
Branches_new_defaults(ts, key) ==
    LET sets == visit_trees(ts, [k \in {"source", "word", "semi", "ERROR"} |-> {}])
    IN  [k \in DOMAIN sets |-> hash_iter(sets[k], key)]

\* Branches::new: kind -> Vec of the distinct fragments, the Vec in the
\* iteration order of the HashSet it is collected from
Branches_new(ts, key) ==
    LET sets == visit_trees(ts, EmptyTable)
    IN  [k \in DOMAIN sets |-> hash_iter(sets[k], key)]

\* faulty variant: the fragment count is added as it is
usize_sub_nothing(a, b) == a % UsizeModulus

\* s.len() - 1 on usize
usize_sub(a, b) == (a - b) % UsizeModulus
usize_add(a, b) == (a + b) % UsizeModulus

RECURSIVE sum_values(_, _)
sum_values(b, ks) ==
    IF ks = <<>> THEN 0
    ELSE usize_add(usize_sub(Len(b[Head(ks)]), 1), sum_values(b, Tail(ks)))

\* Branches::possible
possible(b) == sum_values(b, SetToSeq(DOMAIN b))

(***************************************************************************)
(* Splicer::all_nodes: the non-root nodes level by level, every level a    *)
(* HashSet that is iterated in hash order.                                 *)
(***************************************************************************)
RECURSIVE all_nodes_from(_, _, _)
\* (lv is level bound as a value: the level is computed once)
all_nodes_from(tree, level, key) ==
    CHOOSE q \in {IF lv = <<>> THEN <<>>
                  ELSE lv \o all_nodes_from(tree,
                                 hash_iter(Range(level_children(tree, lv)), key), key)
                  : lv \in {level}} :
        TRUE

\* faulty variant: the traversal starts at the root
all_nodes_with_root(tree, key) == all_nodes_from(tree, <<root_node>>, key)

all_nodes(tree, key) ==
    all_nodes_from(tree, hash_iter(Range(children(tree, root_node)), key), key)

\* the debug_assert!s of all_nodes, level by level: a node of the level is no
\* child of the level, no node is its own child, no child comes twice
RECURSIVE asserts_hold(_, _, _)
asserts_hold(tree, level, key) ==
    IF level = <<>> THEN TRUE
    ELSE LET next == level_children(tree, level)
         IN  /\ Range(next) \cap Range(level) = {}
             /\ \A j \in DOMAIN level : level[j] \notin Range(children(tree, level[j]))
             /\ \A i, j \in DOMAIN next : next[i] = next[j] => i = j
             /\ asserts_hold(tree, hash_iter(Range(next), key), key)

(***************************************************************************)
(* State                                                                   *)
(***************************************************************************)
VARIABLES
    files,          \* the corpus: name -> [text, tree]
    chaos, deletions, inter_splices, node_types, tests,     \* Config
    hasher,         \* the RandomState key of the maps the Splicer builds
    rng,            \* Splicer.rng: [keep, tape, pos]
    branches,       \* Splicer.branches: kind -> sequence of fragments
    kinds,          \* Splicer.kinds
    trees,          \* Splicer.trees: sequence of [text, tree]
    remaining,      \* Splicer.remaining
    pc,             \* where the current call of next() stands
    tree_idx,       \* next: the corpus entry picked
    text, tree,     \* splice_tree: the current buffer and its tree
    splices, round, \* splice_tree: rounds drawn, rounds done
    \* the locals of delete_node and of splice_node, which end with the call
    chaotic, nodes, node, candidates, candidate,
    edit,           \* the (id, bytes) returned to splice_tree, and by whom
    ret,            \* what the last call of next() returned (None while one runs)
    pulls,          \* calls of next() so far
    yields,         \* calls that returned Some
    ended,          \* some call has returned None
    delivered,      \* items returned before the first None
    history         \* [run, prev, out]: what the runs returned, kept with the tape

config == <<chaos, deletions, inter_splices, node_types, tests>>
splicer == <<hasher, branches, kinds, trees>>
locals == <<tree_idx, text, tree, splices, round, chaotic, nodes, node,
            candidates, candidate, edit>>
consumer == <<ret, pulls, yields, ended, delivered>>
vars == <<files, config, splicer, rng, remaining, pc, locals, consumer, history>>

NoEdit == [op |-> "none"]
NoNode == 0
NoTree == <<>>

\* Config.chaos and Config.deletions.  A roll against 50 can go either way,
\* so 50 shows every behaviour a percentage can have; 0 and 100 are the values
\* the properties single out.  (0, 100) adds nothing to (50, 100).
Percentages == {<<0, 50>>, <<50, 50>>, <<50, 100>>}
Kinds == {"source", "word", "semi", "ERROR"} \cup {c \in Alphabet : IsLetter(c)}
\* Config.node_types, the optional kinds of the language
OptionalKinds == {"semi"}

\* the corpora: maps from some of the names to a text and its parse tree
Corpora ==
    UNION {[D -> {[text |-> t, tree |-> parse(t)] : t \in Texts}] :
              D \in {{}, {"f1"}, {"f1", "f2"}}}

\* files.iter(): the entries in the map's iteration order
files_iter(fs, key) ==
    LET names == hash_iter(DOMAIN fs, key)
    IN  [j \in 1..Len(names) |-> fs[names[j]]]

\* the locals of a call that is not running
ClearLocals ==
    /\ tree_idx' = 0 /\ text' = <<>> /\ tree' = NoTree /\ splices' = 0 /\ round' = 0
    /\ chaotic' = FALSE /\ nodes' = <<>> /\ node' = NoNode
    /\ candidates' = <<>> /\ candidate' = <<>> /\ edit' = NoEdit

\* faulty variant: the larger of the two
remaining_max(t, p) == IF t > p THEN t ELSE p

\* remaining: std::cmp::min(config.tests, possible)
remaining_of(t, p) == Min(t, p)

\* splice(): the Splicer built from a Config and a corpus
InitWith(keep) ==
    /\ files \in Corpora
    /\ \E pd \in Percentages : chaos = pd[1] /\ deletions = pd[2]
    /\ inter_splices \in 0..MaxSplices
    /\ node_types = OptionalKinds
    /\ tests \in 0..MaxTests
    /\ hasher \in 0..(HashKeys - 1)
    /\ rng = [keep |-> keep, tape |-> <<>>, pos |-> 0]
    /\ trees = files_iter(files, hasher)
    /\ branches = Branches_new(trees, hasher)
    /\ kinds = hash_iter(DOMAIN branches, hasher)
    /\ remaining = remaining_of(tests, possible(branches))
    /\ pc = "idle"
    /\ tree_idx = 0 /\ text = <<>> /\ tree = NoTree /\ splices = 0 /\ round = 0
    /\ chaotic = FALSE /\ nodes = <<>> /\ node = NoNode
    /\ candidates = <<>> /\ candidate = <<>> /\ edit = NoEdit
    /\ ret = None /\ pulls = 0 /\ yields = 0 /\ ended = FALSE /\ delivered = 0
    /\ history = [run |-> 1, prev |-> <<>>, out |-> <<>>]

Init == InitWith(FALSE)

(***************************************************************************)
(* Operations                                                              *)
(***************************************************************************)
\* one word of the stream is consumed.  A kept stream is read from the tape
\* where the tape has it and extended where it has not.
Draw(r) ==
    IF ~rng.keep THEN rng' = rng
    ELSE IF rng.pos < Len(rng.tape)
    THEN r = rng.tape[rng.pos + 1] /\ rng' = [rng EXCEPT !.pos = @ + 1]
    ELSE /\ Len(rng.tape) < MaxTape
         /\ rng' = [rng EXCEPT !.tape = Append(@, r), !.pos = @ + 1]

\* self.rng.gen_range(0..100) < percent
roll_below(r, percent) == gen_range(r, Percent) < percent

\* self.node_types.optional_node(n)
optional_node(t, n) == t[n].kind \in node_types

\* next() returns v to the consumer
Return(v) ==
    /\ pc' = "idle"
    /\ ret' = v
    /\ yields' = IF v.some THEN yields + 1 ELSE yields
    /\ delivered' = IF v.some /\ ~ended THEN delivered + 1 ELSE delivered
    /\ ended' = (ended \/ ~v.some)
    /\ history' = IF rng.keep THEN [history EXCEPT !.out = Append(@, v)] ELSE history
    /\ ClearLocals

\* Splicer::next, remaining == 0
next_none ==
    /\ pc = "idle" /\ pulls < MaxPulls
    /\ remaining = 0
    /\ pulls' = pulls + 1
    /\ Return(None)
    /\ UNCHANGED <<files, config, splicer, rng, remaining>>

\* Splicer::next, remaining > 0: a corpus entry is picked
next_some ==
    /\ pc = "idle" /\ pulls < MaxPulls
    /\ remaining > 0
    /\ Len(trees) > 0
    /\ \E r \in Raw :
        /\ Draw(r)
        /\ tree_idx' = gen_range(r, Len(trees))
    /\ remaining' = remaining - 1
    /\ pulls' = pulls + 1
    /\ ret' = None
    /\ pc' = "splice_tree"
    /\ UNCHANGED <<files, config, splicer, text, tree, splices, round, chaotic, nodes,
                   node, candidates, candidate, edit, yields, ended, delivered,
                   history>>

\* faulty variant: the range includes inter_splices
draw_splices_inclusive(r) == gen_range(r, inter_splices + 1)

\* self.rng.gen_range(0..self.inter_splices)
draw_splices(r) == gen_range(r, inter_splices)

\* splice_tree: the number of rounds is drawn, the entry's text and tree are copied
splice_tree_begin ==
    /\ pc = "splice_tree"
    /\ inter_splices > 0
    /\ \E r \in Raw :
        /\ Draw(r)
        /\ splices' = draw_splices(r)
    /\ text' = trees[tree_idx + 1].text
    /\ tree' = trees[tree_idx + 1].tree
    /\ round' = 0
    /\ pc' = "loop"
    /\ UNCHANGED <<files, config, splicer, remaining, tree_idx, chaotic, nodes, node,
                   candidates, candidate, edit, consumer, history>>

\* splice_tree: all rounds are done
splice_tree_return ==
    /\ pc = "loop"
    /\ round = splices
    /\ Return(Some(text))
    /\ UNCHANGED <<files, config, splicer, rng, remaining, pulls>>

\* faulty variant: the comparison is turned around
is_deletion_above(r) == gen_range(r, Percent) > deletions

\* the deletion roll of a round: self.rng.gen_range(0..100) < self.deletions
is_deletion(r) == roll_below(r, deletions)

\* splice_tree: a round begins with the deletion roll
splice_tree_round ==
    /\ pc = "loop"
    /\ round < splices
    /\ \E r \in Raw :
        /\ Draw(r)
        /\ pc' = IF is_deletion(r) THEN "delete_node" ELSE "splice_node"
    /\ UNCHANGED <<files, config, splicer, remaining, locals, consumer, history>>

\* faulty variant: a roll equal to chaos counts as chaotic
is_chaotic_or_equal(r) == gen_range(r, Percent) <= chaos

\* the chaos roll: self.rng.gen_range(0..100) < self.chaos
is_chaotic(r) == roll_below(r, chaos)

\* faulty variant: the search for an optional node begins whether or not
\* the tree has one
delete_node_begin_no_fallback ==
    /\ pc = "delete_node"
    /\ \E r \in Raw :
        /\ Draw(r)
        /\ chaotic' = is_chaotic(r)
        /\ IF chaotic'
           THEN pc' = "delete_pick" /\ nodes' = <<>>
           ELSE pc' = "delete_sample" /\ nodes' = all_nodes(tree, hasher)
    /\ UNCHANGED <<files, config, splicer, remaining, tree_idx, text, tree, splices,
                   round, node, candidates, candidate, edit, consumer, history>>

\* delete_node: the chaos roll, and whether any node is optional
delete_node_begin ==
    /\ pc = "delete_node"
    /\ \E r \in Raw :
        /\ Draw(r)
        /\ chaotic' = is_chaotic(r)
        /\ LET ns == all_nodes(tree, hasher)
           IN  IF chaotic' \/ \A j \in DOMAIN ns : ~optional_node(tree, ns[j])
               THEN pc' = "delete_pick" /\ nodes' = <<>>
               ELSE pc' = "delete_sample" /\ nodes' = ns
    /\ UNCHANGED <<files, config, splicer, remaining, tree_idx, text, tree, splices,
                   round, node, candidates, candidate, edit, consumer, history>>

\* what the caller of pick_node does with the node
Picked(n) ==
    IF pc = "delete_pick"
    THEN /\ pc' = "render"
         /\ edit' = [op |-> "delete", id |-> n, bytes |-> <<>>]
         /\ node' = NoNode /\ chaotic' = FALSE
    ELSE /\ pc' = "pool"
         /\ node' = n
         /\ UNCHANGED <<edit, chaotic>>

\* pick_node on a tree that has only its root
pick_node_root ==
    /\ pc \in {"delete_pick", "pick"}
    /\ all_nodes(tree, hasher) = <<>>
    /\ Picked(root_node)
    /\ UNCHANGED <<files, config, splicer, rng, remaining, tree_idx, text, tree, splices,
                   round, nodes, candidates, candidate, consumer, history>>

\* pick_node: one of all_nodes
pick_node_draw ==
    /\ pc \in {"delete_pick", "pick"}
    /\ LET ns == all_nodes(tree, hasher)
       IN  /\ Len(ns) > 0
           /\ \E r \in Raw :
               /\ Draw(r)
               /\ Picked(ns[gen_range(r, Len(ns)) + 1])
    /\ UNCHANGED <<files, config, splicer, remaining, tree_idx, text, tree, splices,
                   round, nodes, candidates, candidate, consumer, history>>

\* faulty variant: the first node drawn is returned
delete_node_sample_unchecked ==
    /\ pc = "delete_sample"
    /\ Len(nodes) > 0
    /\ \E r \in Raw :
        /\ Draw(r)
        /\ edit' = [op |-> "delete", id |-> nodes[gen_range(r, Len(nodes)) + 1],
                    bytes |-> <<>>]
    /\ pc' = "render"
    /\ node' = NoNode /\ nodes' = <<>>
    /\ UNCHANGED <<files, config, splicer, remaining, tree_idx, text, tree, splices,
                   round, chaotic, candidates, candidate, consumer, history>>

\* delete_node: a node is drawn until it is optional
delete_node_sample ==
    /\ pc = "delete_sample"
    /\ Len(nodes) > 0
    /\ \E r \in Raw :
        /\ Draw(r)
        /\ LET n == nodes[gen_range(r, Len(nodes)) + 1]
           IN  IF optional_node(tree, n)
               THEN /\ pc' = "render"
                    /\ edit' = [op |-> "delete", id |-> n, bytes |-> <<>>]
                    /\ node' = NoNode /\ nodes' = <<>>
               ELSE /\ pc' = "delete_sample"
                    /\ node' = n
                    /\ UNCHANGED <<edit, nodes>>
    /\ UNCHANGED <<files, config, splicer, remaining, tree_idx, text, tree, splices,
                   round, chaotic, candidates, candidate, consumer, history>>

\* splice_node: the chaos roll
splice_node_begin ==
    /\ pc = "splice_node"
    /\ \E r \in Raw :
        /\ Draw(r)
        /\ chaotic' = is_chaotic(r)
    /\ node' = root_node
    /\ candidates' = <<>>
    /\ pc' = "pick"
    /\ UNCHANGED <<files, config, splicer, remaining, tree_idx, text, tree, splices,
                   round, nodes, candidate, edit, consumer, history>>

\* faulty variant: the loop goes on only while the pool is empty
Pool_nonempty(c) ==
    /\ candidates' = c
    /\ pc' = IF Len(c) < 1 THEN "pick" ELSE "choose"

\* the loop of splice_node goes on while candidates.len() <= 1
Pool(c) ==
    /\ candidates' = c
    /\ pc' = IF Len(c) <= 1 THEN "pick" ELSE "choose"

\* splice_node, chaotic: the fragments of a kind drawn from kinds
splice_node_chaotic_pool ==
    /\ pc = "pool"
    /\ chaotic
    /\ Len(kinds) > 0
    /\ \E r \in Raw :
        /\ Draw(r)
        /\ Pool(branches[kinds[gen_range(r, Len(kinds)) + 1]])
    /\ UNCHANGED <<files, config, splicer, remaining, tree_idx, text, tree, splices,
                   round, chaotic, nodes, node, candidate, edit, consumer, history>>

\* self.branches.0.get(kind).cloned().unwrap_or_default()
kind_pool(kind) == IF kind \in DOMAIN branches THEN branches[kind] ELSE <<>>

\* splice_node, not chaotic: the fragments of the node's own kind
splice_node_kind_pool ==
    /\ pc = "pool"
    /\ ~chaotic
    /\ Pool(kind_pool(tree[node].kind))
    /\ UNCHANGED <<files, config, splicer, rng, remaining, tree_idx, text, tree, splices,
                   round, chaotic, nodes, node, candidate, edit, consumer, history>>

\* splice_node: a candidate is drawn
splice_node_choose ==
    /\ pc = "choose"
    /\ Len(candidates) > 0
    /\ \E r \in Raw :
        /\ Draw(r)
        /\ candidate' = candidates[gen_range(r, Len(candidates)) + 1]
    /\ pc' = "check"
    /\ UNCHANGED <<files, config, splicer, remaining, tree_idx, text, tree, splices,
                   round, chaotic, nodes, node, candidates, edit, consumer, history>>

\* faulty variant: the candidate drawn first is taken
same_text_never == FALSE

\* candidates.len() > 1 && candidate == &node_text
same_text == Len(candidates) > 1 /\ candidate = node_text(text, tree, node)

\* splice_node: the candidate is the node's own text, another is drawn
splice_node_resample ==
    /\ pc = "check"
    /\ same_text
    /\ \E r \in Raw :
        /\ Draw(r)
        /\ candidate' = candidates[gen_range(r, Len(candidates)) + 1]
    /\ UNCHANGED <<files, config, splicer, remaining, pc, tree_idx, text, tree, splices,
                   round, chaotic, nodes, node, candidates, edit, consumer, history>>

\* splice_node returns (node.id(), candidate)
splice_node_return ==
    /\ pc = "check"
    /\ ~same_text
    /\ edit' = [op |-> "splice", id |-> node, bytes |-> candidate]
    /\ pc' = "render"
    /\ chaotic' = FALSE /\ node' = NoNode /\ candidates' = <<>> /\ candidate' = <<>>
    /\ UNCHANGED <<files, config, splicer, rng, remaining, tree_idx, text, tree, splices,
                   round, nodes, consumer, history>>

\* faulty variant: the rendered text and its tree are written into the corpus entry
render_in_place ==
    /\ pc = "render"
    /\ text' = render(tree, text, edit.id, edit.bytes)
    /\ tree' = parse(text')
    /\ trees' = [trees EXCEPT ![tree_idx + 1] = [text |-> text', tree |-> tree']]
    /\ round' = round + 1
    /\ pc' = "loop"
    /\ edit' = NoEdit
    /\ UNCHANGED <<files, config, hasher, branches, kinds, rng, remaining, tree_idx,
                   splices, chaotic, nodes, node, candidates, candidate, consumer,
                   history>>

\* faulty variant: the rendered text is kept with the tree of the text before
render_no_reparse ==
    /\ pc = "render"
    /\ text' = render(tree, text, edit.id, edit.bytes)
    /\ round' = round + 1
    /\ pc' = "loop"
    /\ edit' = NoEdit
    /\ UNCHANGED <<files, config, splicer, rng, remaining, tree_idx, tree, splices,
                   chaotic, nodes, node, candidates, candidate, consumer, history>>

\* splice_tree: the edit is rendered and the result parsed for the next round
render_ok ==
    /\ pc = "render"
    /\ text' = render(tree, text, edit.id, edit.bytes)
    /\ tree' = parse(text')
    /\ round' = round + 1
    /\ pc' = "loop"
    /\ edit' = NoEdit
    /\ UNCHANGED <<files, config, splicer, rng, remaining, tree_idx, splices, chaotic,
                   nodes, node, candidates, candidate, consumer, history>>

\* faulty variant: a failed render returns the text rendered so far
render_err_partial ==
    /\ pc = "render"
    /\ Return(Some(text))
    /\ UNCHANGED <<files, config, splicer, rng, remaining, pulls>>

\* splice_tree: render fails, .ok()? returns None, which next() returns
render_err ==
    /\ pc = "render"
    /\ Return(None)
    /\ UNCHANGED <<files, config, splicer, rng, remaining, pulls>>

\* the range of the draw the call stands before
draw_range ==
    CASE pc = "idle" -> IF remaining > 0 THEN Len(trees) ELSE 1
      [] pc = "splice_tree" -> inter_splices
      [] pc \in {"delete_pick", "pick"} ->
            IF all_nodes(tree, hasher) = <<>> THEN 1 ELSE Len(all_nodes(tree, hasher))
      [] pc = "delete_sample" -> Len(nodes)
      [] pc = "pool" -> IF chaotic THEN Len(kinds) ELSE 1
      [] pc = "choose" -> Len(candidates)
      [] OTHER -> 1

\* gen_range panics on an empty range
gen_range_panic ==
    /\ pc # "panic"
    /\ draw_range = 0
    /\ pc' = "panic"
    /\ UNCHANGED <<files, config, splicer, rng, remaining, locals, consumer, history>>

Next ==
    \/ next_none
    \/ next_some
    \/ splice_tree_begin
    \/ splice_tree_return
    \/ splice_tree_round
    \/ delete_node_begin
    \/ pick_node_root
    \/ pick_node_draw
    \/ delete_node_sample
    \/ splice_node_begin
    \/ splice_node_chaotic_pool
    \/ splice_node_kind_pool
    \/ splice_node_choose
    \/ splice_node_resample
    \/ splice_node_return
    \/ render_ok
    \/ render_err
    \/ gen_range_panic

Spec == Init /\ [][Next]_vars

(***************************************************************************)
(* A second Splicer from the same Config, seed and corpus map.  The maps   *)
(* it builds have their own RandomState; the stream is the same, so the    *)
(* words already drawn are read again.                                     *)
(***************************************************************************)
splice_again ==
    /\ pc = "idle"
    /\ rng.keep
    /\ history.run = 1
    /\ pulls > 0
    /\ hasher' \in 0..(HashKeys - 1)
    /\ branches' = Branches_new(trees, hasher')
    /\ kinds' = hash_iter(DOMAIN branches', hasher')
    /\ remaining' = remaining_of(tests, possible(branches'))
    /\ rng' = [rng EXCEPT !.pos = 0]
    /\ history' = [run |-> 2, prev |-> history.out, out |-> <<>>]
    /\ ret' = None /\ pulls' = 0 /\ yields' = 0 /\ ended' = FALSE /\ delivered' = 0
    /\ UNCHANGED <<files, config, trees, pc, locals>>

\* the corpora of the second specification: two files, with a root-only tree,
\* an optional node and a kind of two fragments among them
DetTexts == {<<>>, <<"a", ";">>}

InitDet ==
    /\ InitWith(TRUE)
    /\ DOMAIN files = FileNames
    /\ \A f \in FileNames : files[f].text \in DetTexts
    /\ chaos = 50 /\ deletions = 50
    /\ inter_splices = 2
    /\ tests = 1

\* the renderer does not fail here and no range is empty (inter_splices > 0):
\* the two runs differ by nothing but the iteration order of their maps
NextDet ==
    \/ next_none
    \/ next_some
    \/ splice_tree_begin
    \/ splice_tree_return
    \/ splice_tree_round
    \/ delete_node_begin
    \/ pick_node_root
    \/ pick_node_draw
    \/ delete_node_sample
    \/ splice_node_begin
    \/ splice_node_chaotic_pool
    \/ splice_node_kind_pool
    \/ splice_node_choose
    \/ splice_node_resample
    \/ splice_node_return
    \/ render_ok
    \/ splice_again

SpecDet == InitDet /\ [][NextDet]_vars

(***************************************************************************)
(* Runs in which a call of next() that has begun keeps running and the     *)
(* random stream is fair: the loops of delete_node and of splice_node draw *)
(* one word per repetition, and a word that could be drawn again and again *)
(* is drawn at some repetition.                                            *)
(***************************************************************************)
\* the corpora of the third specification: two files over texts that give a
\* root-only tree, a tree with an optional node and non-optional ones, and a
\* tree without an optional node
LiveTexts == {<<>>, <<"a">>, <<"a", ";">>}

InitLive ==
    /\ InitWith(FALSE)
    /\ DOMAIN files = FileNames
    /\ \A f \in FileNames : files[f].text \in LiveTexts
    /\ inter_splices \in {0, 3}
    /\ tests >= 1

\* a step of the call of next() that is running
step ==
    \/ splice_tree_begin
    \/ splice_tree_return
    \/ splice_tree_round
    \/ delete_node_begin
    \/ pick_node_root
    \/ pick_node_draw
    \/ delete_node_sample
    \/ splice_node_begin
    \/ splice_node_chaotic_pool
    \/ splice_node_kind_pool
    \/ splice_node_choose
    \/ splice_node_resample
    \/ splice_node_return
    \/ render_ok
    \/ render_err

\* a repetition of one of the loops l.148-151, l.163-176 and l.182-185 whose
\* draw lets the loop end: an optional node, a node or a kind with a pool of
\* two or more fragments, a candidate that is not the node's text
lucky_draw ==
    \/ delete_node_sample /\ pc' = "render"
    \/ pick_node_draw /\ pc = "pick" /\ ~chaotic /\ Len(kind_pool(tree[node'].kind)) > 1
    \/ splice_node_chaotic_pool /\ pc' = "choose"
    \/ splice_node_resample /\ ~same_text'

\* every repetition draws afresh, so a draw that stays possible comes
FairDraws == SF_vars(lucky_draw)

SpecLive == InitLive /\ [][Next]_vars /\ WF_vars(step) /\ FairDraws

(***************************************************************************)
(* What the corpus holds, stated over the corpus itself.                   *)
(***************************************************************************)
\* the byte slices of the corpus nodes of kind k
FragmentsOf(k) ==
    UNION {{node_text(files[f].text, files[f].tree, n) :
                n \in {m \in DOMAIN files[f].tree : files[f].tree[m].kind = k}} :
           f \in DOMAIN files}

TableKinds == {k \in Kinds : FragmentsOf(k) # {}}

RECURSIVE SumLessOne(_)
SumLessOne(S) ==
    IF S = {} THEN 0
    ELSE LET k == CHOOSE y \in S : TRUE
         IN  (Cardinality(FragmentsOf(k)) - 1) + SumLessOne(S \ {k})

MutationBudget == SumLessOne(TableKinds)
SequenceLength == Min(tests, MutationBudget)

\* no tree of the corpus has a non-root node
RootOnlyCorpus == \A f \in DOMAIN files : Len(files[f].tree) = 1
RootKinds == {files[f].tree[root_node].kind : f \in DOMAIN files}
RootTexts(k) ==
    {node_text(files[f].text, files[f].tree, root_node) :
        f \in {g \in DOMAIN files : files[g].tree[root_node].kind = k}}

InRound == pc \in {"delete_node", "delete_pick", "delete_sample", "splice_node",
                   "pick", "pool", "choose", "check", "render"}
InSpliceNode == pc \in {"splice_node", "pick", "pool", "choose", "check"}

(***************************************************************************)
(* Properties                                                              *)
(***************************************************************************)

\* C1: over any sequence of pulls on one Splicer the number of items yielded
\* never exceeds min(tests, MutationBudget()), and a pull made after
\* min(tests, MutationBudget()) pulls yields nothing.
C1_AtMostSequenceLength ==
    /\ yields <= SequenceLength
    /\ pulls > SequenceLength => (pc = "idle" /\ ~ret.some)

\* C1 witness: the whole sequence was yielded and a further pull returned None
C1_Witness ==
    /\ SequenceLength >= 1
    /\ yields = SequenceLength
    /\ pulls > SequenceLength
    /\ pc = "idle"

\* C2: two Splicers built from the same Config, seed and corpus return the
\* same sequence: what the second has returned so far equals what the first
\* returned at the same positions.
C2_Deterministic ==
    history.run = 2 =>
        \A j \in 1..Min(Len(history.out), Len(history.prev)) :
            history.out[j] = history.prev[j]

\* C3: a render failure is a skip, not the end of the sequence: every item
\* the Splicer yields reaches a consumer that pulls until the first None.
C3_FailureIsSkip == delivered = yields

\* C4: consuming the Splicer never changes the corpus, the entries the
\* Splicer holds or the Branch Table built from them, and every round works
\* on a tree parsed from the round's own buffer.
C4_CorpusUnchanged ==
    /\ [](InRound => tree = parse(text))
    /\ [][/\ files' = files
          /\ trees' = trees
          /\ branches' = branches
          /\ kinds' = kinds]_vars

\* C4 witness: a round has rendered a text that differs from the entry's
C4_Witness ==
    /\ pc = "loop"
    /\ round >= 1
    /\ text # trees[tree_idx + 1].text

\* C5: with chaos = 0 the replacement of every substitution round is a
\* fragment the Branch Table records under the kind of the node replaced,
\* one that a corpus node of that kind spans.
C5_SameKindFragment ==
    (chaos = 0 /\ pc = "render" /\ edit.op = "splice") =>
        /\ tree[edit.id].kind \in DOMAIN branches
        /\ edit.bytes \in Range(branches[tree[edit.id].kind])
        /\ edit.bytes \in FragmentsOf(tree[edit.id].kind)

\* C5 witness: a substitution on a reparsed tree, chaos = 0
C5_Witness ==
    /\ chaos = 0
    /\ pc = "render"
    /\ edit.op = "splice"
    /\ round >= 1
    /\ edit.id # root_node

\* C6: with deletions = 100 every round is a deletion with an empty
\* replacement and splice_node is never entered.
C6_OnlyDeletions ==
    deletions = 100 =>
        /\ ~InSpliceNode
        /\ pc = "render" => (edit.op = "delete" /\ edit.bytes = <<>>)

\* C6 witness: the second deletion round of a test case, deletions = 100
C6_Witness ==
    /\ deletions = 100
    /\ pc = "render"
    /\ round >= 1

\* C7: with inter_splices = 1 no round runs and every item yielded is the
\* text of a corpus entry.
C7_NoRounds ==
    inter_splices = 1 =>
        /\ ~InRound
        /\ splices = 0 /\ round = 0
        /\ ret.some => \E f \in DOMAIN files : ret.bytes = files[f].text

\* C7 witness: two items were yielded with inter_splices = 1
C7_Witness ==
    /\ inter_splices = 1
    /\ yields >= 2
    /\ ret.some

\* C8: MutationBudget() is the sum over the kinds of the table of the number
\* of distinct fragments less one; every kind of the table has a fragment, so
\* no term wraps and the sum is not negative.
C8_Budget ==
    /\ DOMAIN branches = TableKinds
    /\ \A k \in DOMAIN branches :
        /\ Len(branches[k]) >= 1
        /\ Len(branches[k]) = Cardinality(FragmentsOf(k))
        /\ Range(branches[k]) = FragmentsOf(k)
    /\ possible(branches) = MutationBudget
    /\ MutationBudget >= 0

\* C8 witness: a table with a kind of one fragment and a budget of two
C8_Witness ==
    /\ MutationBudget >= 2
    /\ \E k \in DOMAIN branches : Len(branches[k]) = 1
    /\ \E k \in DOMAIN branches : Len(branches[k]) >= 2

\* C9 as stated: for an empty corpus and for a corpus without a non-root
\* node the Branch Table is empty, the budget is 0 and nothing is yielded.
C9_TableEmpty ==
    RootOnlyCorpus =>
        /\ DOMAIN branches = {}
        /\ possible(branches) = 0
        /\ yields = 0
        /\ pc # "panic"

\* C9 amended: the Branch Table of an empty corpus is empty; the table of a
\* corpus without a non-root node holds the kinds of the roots with the roots'
\* texts; and with a budget of 0 nothing is yielded and no pull fails.
C9_RootKindsOnly ==
    RootOnlyCorpus =>
        /\ DOMAIN files = {} => DOMAIN branches = {}
        /\ DOMAIN branches = RootKinds
        /\ \A k \in DOMAIN branches : Range(branches[k]) = RootTexts(k)
        /\ possible(branches) = 0 =>
              (remaining = 0 /\ yields = 0 /\ pc = "idle" /\ ~ret.some)

\* C9 witness: two root-only files, tests requested, pulls made
C9_Witness ==
    /\ RootOnlyCorpus
    /\ Cardinality(DOMAIN files) = 2
    /\ tests >= 1
    /\ pulls >= 2

\* C10: one file whose tree is its root alone: the table maps the root's kind
\* to one fragment, the budget is 0 and nothing is yielded whatever tests is.
C10_SingleRoot ==
    (Cardinality(DOMAIN files) = 1 /\ RootOnlyCorpus) =>
        /\ DOMAIN branches = RootKinds
        /\ Cardinality(RootKinds) = 1
        /\ \A k \in DOMAIN branches : Len(branches[k]) = 1
        /\ possible(branches) = 0
        /\ remaining = 0
        /\ yields = 0
        /\ ~ret.some

\* C10 witness: such a corpus, tests = MaxTests, every pull made
C10_Witness ==
    /\ Cardinality(DOMAIN files) = 1
    /\ RootOnlyCorpus
    /\ tests = MaxTests
    /\ pulls = MaxPulls

\* C11: a substitution round that has begun returns its Edit, under fair
\* draws, for every corpus, Config and tree (the entry's or a reparsed one).
C11_SubstitutionTerminates == (pc = "splice_node") ~> (pc = "render")

\* the non-root nodes of the current tree, and whether one of them is optional
NonRoot == {n \in DOMAIN tree : n # root_node}
SomeOptional == \E n \in NonRoot : optional_node(tree, n)

\* C12: a deletion round that has begun returns its Edit, under fair draws,
\* on every tree.  When the tree has no optional non-root node the round
\* returns the node of one unrestricted pick (the root when the tree has no
\* other node) and never enters the resampling loop; the loop is entered only
\* with an optional node among the candidates.
C12_DeletionTerminates ==
    /\ (pc = "delete_node") ~> (pc = "render")
    /\ [](pc = "delete_sample" =>
            /\ SomeOptional
            /\ \E j \in DOMAIN nodes : optional_node(tree, nodes[j]))
    /\ []((pc = "render" /\ edit.op = "delete") =>
            /\ edit.bytes = <<>>
            /\ IF NonRoot = {} THEN edit.id = root_node ELSE edit.id \in NonRoot)
    /\ [][(pc = "delete_node" /\ ~SomeOptional) => pc' = "delete_pick"]_vars
    /\ [][pc = "delete_pick" => pc' = "render"]_vars

\* C12 witness: chaos = 0 and a tree with optional and other nodes: the
\* resampling loop has returned an optional node
C12_Witness ==
    /\ chaos = 0
    /\ pc = "render" /\ edit.op = "delete"
    /\ optional_node(tree, edit.id)
    /\ \E n \in NonRoot : ~optional_node(tree, n)

\* C13: a deletion round whose chaos roll is not chaotic, on a tree with an
\* optional non-root node, returns an optional node; a node that is not
\* optional is returned only by a chaotic round or on a tree without an
\* optional node.
C13_OptionalDeleted ==
    [][(pc \in {"delete_pick", "delete_sample"} /\ pc' = "render") =>
          /\ edit'.op = "delete"
          /\ (~chaotic /\ SomeOptional) => optional_node(tree, edit'.id)
          /\ ~optional_node(tree, edit'.id) => (chaotic \/ ~SomeOptional)]_vars

\* C13 witness: chaos = 0, a reparsed tree with optional and other nodes, and
\* the deletion round has returned an optional node
C13_Witness ==
    /\ chaos = 0
    /\ round >= 1
    /\ pc = "render" /\ edit.op = "delete"
    /\ optional_node(tree, edit.id)
    /\ \E n \in NonRoot : ~optional_node(tree, n)

\* the elements of a sequence are pairwise distinct
Distinct(s) == \A i, j \in DOMAIN s : s[i] = s[j] => i = j

\* C14: a substitution round returns a replacement drawn from a pool of two
\* or more pairwise distinct fragments, an entry of the Branch Table, whether
\* the round is chaotic or not; an empty pool or a pool of one is never
\* drawn from.
C14_PoolOfTwo ==
    /\ [](pc \in {"choose", "check"} =>
            /\ Len(candidates) >= 2
            /\ Distinct(candidates)
            /\ \E k \in DOMAIN branches : candidates = branches[k])
    /\ [](pc = "check" => candidate \in Range(candidates))
    /\ [][(pc' = "render" /\ edit'.op = "splice" /\ pc # "render") =>
            /\ pc = "check"
            /\ edit'.bytes = candidate]_vars

\* C14 witness: a chaotic round has returned a fragment that the kind of the
\* node replaced does not have
C14_Witness ==
    /\ pc = "render" /\ edit.op = "splice"
    /\ edit.bytes \notin Range(kind_pool(tree[edit.id].kind))

\* C15: in a substitution round every repetition of the pick-node step has
\* its own chaos roll: after a pool of at most one element the round goes
\* back to the roll, which decides the mode of the next repetition.  (Stated
\* for the percentages at which a roll can go either way.)
C15_RollPerRepetition ==
    [][(0 < chaos /\ chaos < Percent /\ pc = "pool" /\ Len(candidates') <= 1) =>
          pc' = "splice_node"]_vars

\* C16: the node of every Edit that is rendered was selected from the tree
\* and the buffer that the render is given: the tree is the parse of the
\* buffer, the node is one of its nodes with its byte range inside the buffer,
\* the tree and the buffer do not change between the selection and the
\* render, and when the tree is replaced no node selected from it is kept.
C16_NodeOfSnapshot ==
    /\ [](pc = "render" =>
            /\ tree = parse(text)
            /\ edit.id \in DOMAIN tree
            /\ tree[edit.id].start <= tree[edit.id].end
            /\ tree[edit.id].end <= Len(text))
    /\ []((InRound /\ node # NoNode) => node \in DOMAIN tree)
    /\ []((InRound /\ nodes # <<>>) => Range(nodes) \subseteq DOMAIN tree)
    /\ [][(InRound /\ pc # "render") => (pc' = "idle" \/ (tree' = tree /\ text' = text))]_vars
    /\ [][tree' # tree => (edit' = NoEdit /\ node' = NoNode /\ nodes' = <<>>)]_vars

\* C16 witness: an Edit on a node other than the root, selected in a tree
\* that a reparse produced
C16_Witness ==
    /\ pc = "render"
    /\ round >= 1
    /\ edit.id # root_node
    /\ tree # trees[tree_idx + 1].tree

\* C17: when the render of a round fails, splice_tree returns None: the call
\* yields no bytes, neither the entry's nor those of the rounds before, and
\* no further round of the test case runs.  (A step from the render that is
\* not followed by the next round is the failed render.)
C17_NoPartialOutput ==
    /\ [][(pc = "render" /\ pc' # "loop") =>
            /\ pc' = "idle"
            /\ ret' = None
            /\ yields' = yields
            /\ round' = 0 /\ splices' = 0
            /\ text' = <<>> /\ tree' = NoTree /\ edit' = NoEdit]_vars
    /\ []((pc = "idle" /\ ret.some) => remaining + yields <= tests)
    /\ [][(yields' # yields) => (pc = "loop" /\ round = splices /\ ret' = Some(text))]_vars

\* C17 witness: a pull has returned None although the Splicer had items left
\* to give, which only a failed render does
C17_Witness ==
    /\ pc = "idle"
    /\ pulls >= 1
    /\ ret = None
    /\ remaining >= 1

\* the trees the Splicer holds: those of the corpus and the current one
TreesInHand ==
    {trees[j].tree : j \in DOMAIN trees} \cup (IF tree = NoTree THEN {} ELSE {tree})

\* C18: for every tree, all_nodes holds every non-root node once and never
\* the root, and none of its assertions fires; pick_node returns the root
\* exactly when the tree has no other node, and else an element of all_nodes.
C18_AllNodes ==
    /\ [](\A t \in TreesInHand : \A key \in 0..(HashKeys - 1) :
            /\ Range(all_nodes(t, key)) = DOMAIN t \ {root_node}
            /\ Len(all_nodes(t, key)) = Len(t) - 1
            /\ asserts_hold(t, hash_iter(Range(children(t, root_node)), key), key))
    /\ [][(pc \in {"pick", "delete_pick"} /\ pc' \in {"pool", "render"}) =>
            LET n == IF pc = "pick" THEN node' ELSE edit'.id
            IN  /\ n = root_node <=> NonRoot = {}
                /\ NonRoot # {} => n \in Range(all_nodes(tree, hasher))]_vars

\* C18 witness: pick_node has returned a node of the second level of a tree
\* that a reparse produced
C18_Witness ==
    /\ pc = "pool"
    /\ round >= 1
    /\ node # root_node
    /\ tree[node].parent # root_node

\* C19: the replacement a substitution round returns differs from the text
\* the node replaced has in the current buffer, in chaotic and non-chaotic
\* rounds alike, so the rendered text differs from the buffer.
C19_NeverNoOp ==
    (pc = "render" /\ edit.op = "splice") =>
        /\ edit.bytes # node_text(text, tree, edit.id)
        /\ render(tree, text, edit.id, edit.bytes) # text

\* C19 witness: chaos = 0 and the text of the node replaced is itself a
\* fragment of the pool the replacement was drawn from
C19_Witness ==
    /\ chaos = 0
    /\ pc = "render" /\ edit.op = "splice"
    /\ node_text(text, tree, edit.id) \in Range(kind_pool(tree[edit.id].kind))
    /\ round >= 1

\* C20: every draw a pull reaches is over a range that is not empty, the
\* round count in [0, inter_splices) included, for every inter_splices from
\* 0 on: no pull aborts.
C20_NoEmptyRange == draw_range # 0 /\ pc # "panic"

====
